---- MODULE Spec2Model ----
(***************************************************************************)
(* Model of crates/media/src/pipeline/builder.rs: the PipelineBuilder, the *)
(* stage runner threads it spawns at registration, the two-phase launch   *)
(* protocol of build() and the supervisor task that races the stages'     *)
(* completion signals.                                                     *)
(*                                                                         *)
(* Text (String) is modelled as a sequence of fragments; format!() is the  *)
(* concatenation of its literal pieces and its arguments.                  *)
(***************************************************************************)
EXTENDS Integers, Sequences, FiniteSets, TLC

\* ---------------------------------------------------------------- bounds
\* Largest number of stages a builder registers.
MaxStages == 2

\* Names the caller registers stages under (the k-th new stage is StageNames[k]).
StageNames == <<"a", "b", "c", "d", "e", "f">>

\* ---------------------------------------------------------------- values
\* Result<(), E>
Ok == [tag |-> "Ok", err |-> <<>>]
Err(e) == [tag |-> "Err", err |-> e]

\* An empty channel slot / a value not yet produced.
None == [tag |-> "None", err |-> <<>>]

\* MediaError, the two variants builder.rs constructs.
EmptyPipeline == [kind |-> "EmptyPipeline", text |-> <<>>]
TaskLaunch(msg) == [kind |-> "TaskLaunch", text |-> msg]
NoError == [kind |-> "", text |-> <<>>]

\* Result<(), MediaError>: what travels on a readiness signal and what build() returns.
ReadyOk == [tag |-> "Ok", err |-> NoError]
ReadyErr(e) == [tag |-> "Err", err |-> e]
ReadyNone == [tag |-> "None", err |-> NoError]

\* Display of flume::RecvError (the readiness channel is closed and empty).
RecvErrorText == <<"channel is empty and sending half is closed">>

\* What a launch closure left behind: nothing yet, a returned Result, or a panic
\* payload of kind pk carrying msg ("Abort": a payload whose destructor panicked).
NoOut == [tag |-> "None", msg |-> <<>>, pk |-> ""]
Returned(r) == [tag |-> r.tag, msg |-> r.err, pk |-> ""]
Panic(p) == [tag |-> "Panic", msg |-> p.msg, pk |-> p.kind]

\* What polling a receiver yields: nothing yet, a value, or "closed".
Pending == [tag |-> "Pending", val |-> None]
Recv(v) == [tag |-> "Recv", val |-> v]
Closed == [tag |-> "Closed", val |-> None]

\* The text t contains the fragments of r as a contiguous run.
Contains(t, r) ==
    \E k \in 0..(Len(t) - Len(r)) : \A j \in 1..Len(r) : t[k + j] = r[j]

\* ------------------------------------------------- inputs of the stages
\* Errors a stage may send on its readiness signal.
ReadyErrors == {TaskLaunch(<<"no device">>)}
ReadyValues == {ReadyOk} \cup {ReadyErr(e) : e \in ReadyErrors}

\* Messages a launch closure may return as Err(msg).
LaunchErrors == {<<"boom">>}
LaunchResults == {Ok} \cup {Err(m) : m \in LaunchErrors}

\* Panic payloads: a &'static str, a String, or any other payload type.
PanicPayloads ==
    {[kind |-> "str", msg |-> <<"oops">>],
     [kind |-> "String", msg |-> <<"bad ", "frame">>],
     [kind |-> "other", msg |-> <<>>]}

\* How a registration call reaches spawn_task.
Kinds == {"source", "spawn_source", "spawn_task"}

\* ----------------------------------------------------------------- state
VARIABLES
    pc,          \* builder: "registering", "chained", "panicked", "wait", "sleep", "spawn",
                 \* "return", "done"
    tasks,       \* PipelineBuilder.tasks: sequence of [name, listener] in insertion order
    listeners,   \* ControlBroadcast: sequence of [name, id] (an insertion-ordered map)
    nextListener,\* identity of the next listener handle add_listener creates
    st,          \* per stage thread: "running" (inside launch), "reporting" (launch over,
                 \* nothing sent on the completion signal yet) or "ended"
    out,         \* per stage: what launch returned (Ok/Err(msg)) or the panic payload
    signalled,   \* per stage: the stage has used its readiness sender
    ready,       \* per stage readiness channel: [buf, tx, rx]
    done,        \* per stage completion oneshot: [val, tx, rx]
    firstEnded,  \* index of the stage whose thread ended first in time (0: none yet)
    idx,         \* build(): position of the readiness loop in tasks
    got,         \* build(): what each readiness wait so far yielded, in loop order
    buildResult, \* what build() returned: None, Ok or Err(MediaError)
    supPc,       \* supervisor task: "none", "poll", "parked", "selected", "done"
    supIdx,      \* select_all: the future it polls next
    supIndex,    \* select_all's result: index of the future that resolved (0: none)
    supRecv,     \* select_all's result: what that receiver yielded
    completion,  \* the completion oneshot of the pipeline: [created, val]
    published    \* history of the race: [polled, first], first being the earliest
                 \* of two or more signals resolved at select_all's first poll

vars == <<pc, tasks, listeners, nextListener, st, out, signalled, ready, done,
          firstEnded, idx, got, buildResult, supPc, supIdx, supIndex, supRecv,
          completion, published>>

builderVars == <<pc, tasks, listeners, nextListener, idx, got, buildResult>>
supervisorVars == <<supPc, supIdx, supIndex, supRecv, completion, published>>
stageVars == <<st, out, signalled, ready, done, firstEnded>>

Stages == 1..Len(tasks)
TaskNames == {tasks[i].name : i \in Stages}

Init ==
    /\ pc = "registering"
    /\ tasks = <<>>
    /\ listeners = <<>>
    /\ nextListener = 1
    /\ st = <<>>
    /\ out = <<>>
    /\ signalled = <<>>
    /\ ready = <<>>
    /\ done = <<>>
    /\ firstEnded = 0
    /\ idx = 0
    /\ got = <<>>
    /\ buildResult = ReadyNone
    /\ supPc = "none"
    /\ supIdx = 0
    /\ supIndex = 0
    /\ supRecv = Pending
    /\ completion = [created |-> FALSE, val |-> None]
    /\ published = [polled |-> FALSE, first |-> 0]

\* ---------------------------------------------------------- registration
\* ControlBroadcast::add_listener(name): the registry maps the name to the new
\* listener handle (an existing entry of that name is replaced in place).
AddListener(reg, name, id) ==
    IF \E k \in 1..Len(reg) : reg[k].name = name
    THEN [k \in 1..Len(reg) |->
            IF reg[k].name = name THEN [name |-> name, id |-> id] ELSE reg[k]]
    ELSE Append(reg, [name |-> name, id |-> id])

\* A contains_key that never finds the name.
ContainsKeyNever(ts, name) == FALSE

\* self.tasks.contains_key(&name)
ContainsKey(ts, name) == \E i \in 1..Len(ts) : ts[i].name = name

\* spawn_task(name, launch): panics on a name already present; otherwise creates
\* the readiness channel and the completion oneshot, spawns the stage thread
\* and inserts the Task. lis is the listener handle the launch closure captured
\* (0 when spawn_task is called directly, with a closure of the caller's).
\* byValue tells that the caller is source(), which holds the builder by value:
\* the panic then unwinds through source() and drops the builder, and with it
\* the ready_signal and done_rx of every Task; a spawn_task that returns
\* leaves the builder with its caller.
SpawnTask(name, lis, byValue) ==
    IF ContainsKey(tasks, name)
    THEN /\ pc' = "panicked"
         /\ ready' = [j \in Stages |->
                        [ready[j] EXCEPT !.rx = IF byValue THEN FALSE ELSE @]]
         /\ done' = [j \in Stages |->
                        [done[j] EXCEPT !.rx = IF byValue THEN FALSE ELSE @]]
         /\ UNCHANGED <<tasks, st, out, signalled, firstEnded>>
    ELSE /\ pc' = IF byValue THEN "chained" ELSE pc
         /\ tasks' = Append(tasks, [name |-> name, listener |-> lis])
         /\ st' = Append(st, "running")
         /\ out' = Append(out, NoOut)
         /\ signalled' = Append(signalled, FALSE)
         /\ ready' = Append(ready, [buf |-> ReadyNone, tx |-> TRUE, rx |-> TRUE])
         /\ done' = Append(done, [val |-> None, tx |-> TRUE, rx |-> TRUE])
         /\ firstEnded' = firstEnded

\* spawn_source(&mut self, ..): add the control listener, then spawn_task.
SpawnSource(name) ==
    /\ listeners' = AddListener(listeners, name, nextListener)
    /\ nextListener' = nextListener + 1
    /\ SpawnTask(name, nextListener, FALSE)

\* source(mut self, ..): add the control listener, then spawn_task, then move
\* the builder into the PipelinePathBuilder it returns ("chained"): the file has
\* no method that registers on, builds or takes apart a PipelinePathBuilder.
Source(name) ==
    /\ listeners' = AddListener(listeners, name, nextListener)
    /\ nextListener' = nextListener + 1
    /\ SpawnTask(name, nextListener, TRUE)

\* One registration call by the caller. A new stage takes the next unused name;
\* a call may also repeat a name already registered.
Register(kind, name) ==
    /\ pc = "registering"
    /\ \/ /\ Len(tasks) < MaxStages
          /\ name = StageNames[Len(tasks) + 1]
       \/ name \in TaskNames
    /\ IF kind = "spawn_task"
       THEN /\ SpawnTask(name, 0, FALSE)
            /\ UNCHANGED <<listeners, nextListener>>
       ELSE IF kind = "spawn_source"
       THEN SpawnSource(name)
       ELSE Source(name)
    /\ UNCHANGED <<idx, got, buildResult, supervisorVars>>

\* ---------------------------------------------------------- stage threads
\* StageSignal on a channel without a buffer (a try_send on flume::bounded(0)):
\* the value is handed over only if build() is waiting on this stage.
StageSignalRendezvous(i, v) ==
    /\ i \in Stages
    /\ st[i] = "running"
    /\ ~signalled[i]
    /\ signalled' = [signalled EXCEPT ![i] = TRUE]
    /\ ready' = [ready EXCEPT ![i].buf =
                    IF ready[i].rx /\ pc = "wait" /\ idx = i THEN v ELSE @]
    /\ UNCHANGED <<st, out, done, firstEnded, builderVars, supervisorVars>>

\* The stage's run logic sends v on its readiness sender (flume::bounded(1)): the
\* value is buffered unless build() has already dropped the receiver.
StageSignal(i, v) ==
    /\ i \in Stages
    /\ st[i] = "running"
    /\ ~signalled[i]
    /\ signalled' = [signalled EXCEPT ![i] = TRUE]
    /\ ready' = [ready EXCEPT ![i].buf = IF ready[i].rx THEN v ELSE @]
    /\ UNCHANGED <<st, out, done, firstEnded, builderVars, supervisorVars>>

\* The text the runner makes of a caught panic payload.
PanicMessage(o) ==
    IF o.pk \in {"str", "String"}
    THEN <<"Panicked: ">> \o o.msg
    ELSE <<"Panicked: Unknown error">>

\* RunnerResult that drops the outcome of catch_unwind: a panic counts as Ok.
RunnerResultPanicLost(o) ==
    IF o.tag = "Err" THEN Err(o.msg) ELSE Ok

\* catch_unwind(..).map_err(..).and_then(|v| v): the Result the runner reports.
RunnerResult(o) ==
    IF o.tag = "Panic" THEN Err(PanicMessage(o))
    ELSE IF o.tag = "Err" THEN Err(o.msg)
    ELSE Ok

\* DoneSend that stores the value whether or not a receiver is left.
DoneSendIgnoresReceiver(ch, v) == [ch EXCEPT !.val = v, !.tx = FALSE]

\* let _ = done_tx.send(result): the value reaches the oneshot unless its
\* receiver is gone (the send error is ignored); the sender is used up.
DoneSend(ch, v) == [ch EXCEPT !.val = IF ch.rx THEN v ELSE @, !.tx = FALSE]

\* The launch closure of stage thread i ends, leaving o: launch took the
\* readiness sender by value, so the sender is gone by then (dropped at the
\* return or by the unwinding). The runner has still to log, to make its
\* Result and to report ("reporting").
LaunchEnd(i, o) ==
    /\ i \in Stages
    /\ st[i] = "running"
    /\ st' = [st EXCEPT ![i] = "reporting"]
    /\ out' = [out EXCEPT ![i] = o]
    /\ ready' = [ready EXCEPT ![i].tx = FALSE]
    /\ UNCHANGED <<signalled, done, firstEnded, builderVars, supervisorVars>>

\* launch(ready_sender) returns r. The closures source() and spawn_source()
\* build always return Ok(()).
LaunchReturn(i, r) ==
    /\ i \in Stages
    /\ tasks[i].listener # 0 => r = Ok
    /\ LaunchEnd(i, Returned(r))

\* launch(ready_sender) panics with payload p: catch_unwind stops the unwinding
\* inside the stage thread.
LaunchPanic(i, p) ==
    LaunchEnd(i, Panic(p))

\* launch panics with a payload that is neither &str nor String and whose
\* destructor panics ("Abort").
LaunchPanicAbort(i, p) ==
    /\ p.kind = "other"
    /\ LaunchEnd(i, [Panic(p) EXCEPT !.tag = "Abort"])

\* The rest of stage thread i after launch: the runner logs, map_err makes
\* the text of a panic and drops the payload, then done_tx.send(result)
\* reports RunnerResult on the completion signal and the thread ends. A
\* payload whose destructor panics makes the thread unwind out of the runner
\* instead: done_tx is dropped without a value.
RunnerFinish(i) ==
    /\ i \in Stages
    /\ st[i] = "reporting"
    /\ st' = [st EXCEPT ![i] = "ended"]
    /\ done' = [done EXCEPT ![i] =
                  IF out[i].tag = "Abort"
                  THEN [done[i] EXCEPT !.tx = FALSE]
                  ELSE DoneSend(done[i], RunnerResult(out[i]))]
    /\ firstEnded' = IF firstEnded = 0 THEN i ELSE firstEnded
    /\ UNCHANGED <<out, signalled, ready, builderVars, supervisorVars>>

\* ----------------------------------------------------------------- build()
\* BuildStart without the is_empty() test: the loop over no task ends at once
\* and build() goes on to the sleep and the supervisor.
BuildStartNoEmptyCheck ==
    /\ pc = "registering"
    /\ pc' = IF Len(tasks) = 0 THEN "sleep" ELSE "wait"
    /\ idx' = IF Len(tasks) = 0 THEN idx ELSE 1
    /\ UNCHANGED <<tasks, listeners, nextListener, got, buildResult, stageVars,
                   supervisorVars>>

\* build() takes the builder apart; with no task it returns EmptyPipeline at once.
BuildStart ==
    /\ pc = "registering"
    /\ IF Len(tasks) = 0
       THEN /\ pc' = "done"
            /\ buildResult' = ReadyErr(EmptyPipeline)
            /\ idx' = idx
       ELSE /\ pc' = "wait"
            /\ buildResult' = buildResult
            /\ idx' = 1
    /\ UNCHANGED <<tasks, listeners, nextListener, got, stageVars, supervisorVars>>

\* TimeoutRecv that looks at the sender first: a channel whose sender is gone
\* counts as closed even with a value buffered.
TimeoutRecvClosedFirst(ch) ==
    IF ~ch.tx THEN [tag |-> "Closed", val |-> ReadyNone]
    ELSE IF ch.buf # ReadyNone THEN [tag |-> "Recv", val |-> ch.buf]
    ELSE [tag |-> "Elapsed", val |-> ReadyNone]

\* timeout(5 s, ready_signal.recv_async()): a buffered value is received even
\* after the sender is gone; an empty channel whose sender is gone is closed;
\* otherwise the wait can run into the timeout.
TimeoutRecv(ch) ==
    IF ch.buf # ReadyNone THEN [tag |-> "Recv", val |-> ch.buf]
    ELSE IF ~ch.tx THEN [tag |-> "Closed", val |-> ReadyNone]
    ELSE [tag |-> "Elapsed", val |-> ReadyNone]

\* ReadyOutcome with a timeout message that leaves the task's name out.
ReadyOutcomeNoName(name, r) ==
    IF r.tag = "Elapsed"
    THEN ReadyErr(TaskLaunch(<<"task timed out">>))
    ELSE IF r.tag = "Closed"
    THEN ReadyErr(TaskLaunch(<<name, " build / ">> \o RecvErrorText))
    ELSE r.val

\* ReadyOutcome that swallows the timeout: a wait that elapsed counts as Ok.
ReadyOutcomeTimeoutOk(name, r) ==
    IF r.tag = "Elapsed"
    THEN ReadyOk
    ELSE IF r.tag = "Closed"
    THEN ReadyErr(TaskLaunch(<<name, " build / ">> \o RecvErrorText))
    ELSE r.val

\* The two map_err and the two ? applied to what the wait yielded: the Result
\* the loop body goes on with (Ok) or build() returns (Err).
ReadyOutcome(name, r) ==
    IF r.tag = "Elapsed"
    THEN ReadyErr(TaskLaunch(<<"task timed out: '", name, "'">>))
    ELSE IF r.tag = "Closed"
    THEN ReadyErr(TaskLaunch(<<name, " build / ">> \o RecvErrorText))
    ELSE r.val

\* BuildAwaitReady that shuts the stages down when a readiness fails (the
\* source's TODO): every stage thread is ended on the failing turn.
BuildAwaitReadyShutdown ==
    /\ pc = "wait"
    /\ got' = Append(got, TimeoutRecv(ready[idx]))
    /\ LET o == ReadyOutcome(tasks[idx].name, TimeoutRecv(ready[idx])) IN
       IF o = ReadyOk
       THEN /\ ready' = [ready EXCEPT ![idx].buf = ReadyNone, ![idx].rx = FALSE]
            /\ IF idx < Len(tasks)
               THEN /\ idx' = idx + 1
                    /\ pc' = pc
               ELSE /\ idx' = idx
                    /\ pc' = "sleep"
            /\ UNCHANGED <<done, buildResult, st>>
       ELSE /\ ready' = [j \in Stages |->
                            [ready[j] EXCEPT !.rx = FALSE,
                                             !.buf = IF j = idx THEN ReadyNone ELSE @]]
            /\ done' = [j \in Stages |-> [done[j] EXCEPT !.rx = FALSE]]
            /\ buildResult' = o
            /\ pc' = "done"
            /\ idx' = idx
            /\ st' = [j \in Stages |-> "ended"]
    /\ UNCHANGED <<tasks, listeners, nextListener, out, signalled, firstEnded,
                   supervisorVars>>

\* BuildAwaitReady on recv_async() without the timeout: the turn ends only
\* when the stage has sent a value or dropped its sender.
BuildAwaitReadyNoTimeout ==
    /\ pc = "wait"
    /\ TimeoutRecv(ready[idx]).tag # "Elapsed"
    /\ got' = Append(got, TimeoutRecv(ready[idx]))
    /\ LET o == ReadyOutcome(tasks[idx].name, TimeoutRecv(ready[idx])) IN
       IF o = ReadyOk
       THEN /\ ready' = [ready EXCEPT ![idx].buf = ReadyNone, ![idx].rx = FALSE]
            /\ IF idx < Len(tasks)
               THEN /\ idx' = idx + 1
                    /\ pc' = pc
               ELSE /\ idx' = idx
                    /\ pc' = "sleep"
            /\ UNCHANGED <<done, buildResult>>
       ELSE /\ ready' = [j \in Stages |->
                            [ready[j] EXCEPT !.rx = FALSE,
                                             !.buf = IF j = idx THEN ReadyNone ELSE @]]
            /\ done' = [j \in Stages |-> [done[j] EXCEPT !.rx = FALSE]]
            /\ buildResult' = o
            /\ pc' = "done"
            /\ idx' = idx
    /\ UNCHANGED <<tasks, listeners, nextListener, st, out, signalled, firstEnded,
                   supervisorVars>>

\* One turn of the readiness loop on stage idx. On Ok the loop keeps the
\* stage's completion receiver and moves on (the readiness receiver is dropped
\* with the rest of the Task); on Err build() returns it and every receiver
\* the builder still held is dropped.
BuildAwaitReady ==
    /\ pc = "wait"
    /\ got' = Append(got, TimeoutRecv(ready[idx]))
    /\ LET o == ReadyOutcome(tasks[idx].name, TimeoutRecv(ready[idx])) IN
       IF o = ReadyOk
       THEN /\ ready' = [ready EXCEPT ![idx].buf = ReadyNone, ![idx].rx = FALSE]
            /\ IF idx < Len(tasks)
               THEN /\ idx' = idx + 1
                    /\ pc' = pc
               ELSE /\ idx' = idx
                    /\ pc' = "sleep"
            /\ UNCHANGED <<done, buildResult>>
       ELSE /\ ready' = [j \in Stages |->
                            [ready[j] EXCEPT !.rx = FALSE,
                                             !.buf = IF j = idx THEN ReadyNone ELSE @]]
            /\ done' = [j \in Stages |-> [done[j] EXCEPT !.rx = FALSE]]
            /\ buildResult' = o
            /\ pc' = "done"
            /\ idx' = idx
    /\ UNCHANGED <<tasks, listeners, nextListener, st, out, signalled, firstEnded,
                   supervisorVars>>

\* tokio::time::sleep(10 ms) after the last readiness.
BuildSleep ==
    /\ pc = "sleep"
    /\ pc' = "spawn"
    /\ UNCHANGED <<tasks, listeners, nextListener, idx, got, buildResult, stageVars,
                   supervisorVars>>

\* oneshot::channel() and tokio::spawn of the supervisor task.
BuildSpawn ==
    /\ pc = "spawn"
    /\ pc' = "return"
    /\ completion' = [created |-> TRUE, val |-> None]
    /\ supPc' = "poll"
    /\ supIdx' = 1
    /\ UNCHANGED <<tasks, listeners, nextListener, idx, got, buildResult, stageVars,
                   supIndex, supRecv, published>>

\* build() returns Ok((Pipeline, done_rx)).
BuildReturn ==
    /\ pc = "return"
    /\ pc' = "done"
    /\ buildResult' = ReadyOk
    /\ UNCHANGED <<tasks, listeners, nextListener, idx, got, stageVars, supervisorVars>>

\* ------------------------------------------------------------- supervisor
\* OneshotPoll that takes a receiver with nothing sent yet for a closed one.
OneshotPollEager(ch) ==
    IF ch.val # None THEN Recv(ch.val) ELSE Closed

\* Polling a oneshot receiver: a value sent, or closed when the sender was
\* dropped without sending.
OneshotPoll(ch) ==
    IF ch.val # None THEN Recv(ch.val)
    ELSE IF ~ch.tx THEN Closed
    ELSE Pending

\* task_names indexed by a constant instead of select_all's index.
TaskNameAtFirst(i) == tasks[1].name

\* task_names[index]: the names were pushed in the order of stop_rx.
TaskNameAt(i) == tasks[i].name

\* The stages whose completion signal has resolved (a value or closed).
Resolved == {j \in Stages : done[j].rx /\ OneshotPoll(done[j]) # Pending}

\* The earliest-registered of the stages in S when S has two or more (else 0).
EarliestOfSeveral(S) ==
    IF Cardinality(S) >= 2 THEN CHOOSE m \in S : \A x \in S : m <= x ELSE 0

\* SupPoll of a race that polls the receivers from the last one to the first.
SupPollLastFirst ==
    /\ supPc = "poll"
    /\ LET k == Len(tasks) + 1 - supIdx
           r == OneshotPoll(done[k]) IN
       IF r # Pending
       THEN /\ supPc' = "selected"
            /\ supIndex' = k
            /\ supRecv' = r
            /\ supIdx' = supIdx
            /\ done' = [j \in Stages |->
                          [done[j] EXCEPT !.rx = FALSE,
                                          !.val = IF j = k THEN None ELSE @]]
       ELSE /\ supPc' = IF supIdx < Len(tasks) THEN "poll" ELSE "parked"
            /\ supIdx' = IF supIdx < Len(tasks) THEN supIdx + 1 ELSE supIdx
            /\ UNCHANGED <<supIndex, supRecv, done>>
    /\ published' = IF published.polled THEN published
                     ELSE [polled |-> TRUE, first |-> EarliestOfSeveral(Resolved)]
    /\ UNCHANGED <<builderVars, st, out, signalled, ready, firstEnded, completion>>

\* select_all(stop_rx) polls the receivers in order. The first one found
\* resolved ends the race: its value is taken and the other receivers are
\* dropped. After a full pass with none resolved the task parks.
SupPoll ==
    /\ supPc = "poll"
    /\ LET r == OneshotPoll(done[supIdx]) IN
       IF r # Pending
       THEN /\ supPc' = "selected"
            /\ supIndex' = supIdx
            /\ supRecv' = r
            /\ supIdx' = supIdx
            /\ done' = [j \in Stages |->
                          [done[j] EXCEPT !.rx = FALSE,
                                          !.val = IF j = supIdx THEN None ELSE @]]
       ELSE /\ supPc' = IF supIdx < Len(tasks) THEN "poll" ELSE "parked"
            /\ supIdx' = IF supIdx < Len(tasks) THEN supIdx + 1 ELSE supIdx
            /\ UNCHANGED <<supIndex, supRecv, done>>
    /\ published' = IF published.polled THEN published
                     ELSE [polled |-> TRUE, first |-> EarliestOfSeveral(Resolved)]
    /\ UNCHANGED <<builderVars, st, out, signalled, ready, firstEnded, completion>>

\* SupWake of a task that joins the signals instead of racing them: it wakes
\* only once every completion signal has resolved.
SupWakeWhenAllResolved ==
    /\ supPc = "parked"
    /\ \A j \in Stages : OneshotPoll(done[j]) # Pending
    /\ supPc' = "poll"
    /\ supIdx' = 1
    /\ UNCHANGED <<builderVars, stageVars, supIndex, supRecv, completion, published>>

\* A completion signal that resolves wakes the parked supervisor, which polls
\* again from the first receiver.
SupWake ==
    /\ supPc = "parked"
    /\ \E j \in Stages : OneshotPoll(done[j]) # Pending
    /\ supPc' = "poll"
    /\ supIdx' = 1
    /\ UNCHANGED <<builderVars, stageVars, supIndex, supRecv, completion, published>>

\* SupervisorResult without the Err(_) arm: a closed channel counts as success.
SupervisorResultNoClosedArm(name, r) ==
    IF r.tag = "Recv" /\ r.val.tag = "Err"
    THEN Err(<<"Task '", name, "' failed: ">> \o r.val.err)
    ELSE Ok

\* The match on what the winning receiver yielded.
SupervisorResult(name, r) ==
    IF r.tag = "Recv" /\ r.val.tag = "Err"
    THEN Err(<<"Task '", name, "' failed: ">> \o r.val.err)
    ELSE IF r.tag = "Closed"
    THEN Err(<<"Task '", name, "' failed for unknown reason">>)
    ELSE Ok

\* SupPublish in a loop: after sending, the task races the signals again.
SupPublishAndRaceAgain ==
    /\ supPc = "selected"
    /\ supPc' = "poll"
    /\ supIdx' = 1
    /\ completion' = [completion EXCEPT !.val = SupervisorResult(tasks[supIndex].name, supRecv)]
    /\ UNCHANGED <<builderVars, stageVars, supIndex, supRecv, published>>

\* let _ = done_tx.send(result)
SupPublish ==
    /\ supPc = "selected"
    /\ supPc' = "done"
    /\ completion' = [completion EXCEPT !.val = SupervisorResult(TaskNameAt(supIndex), supRecv)]
    /\ UNCHANGED <<builderVars, stageVars, supIdx, supIndex, supRecv, published>>

\* ----------------------------------------------------------- specification
Next ==
    \/ \E k \in Kinds, n \in {StageNames[j] : j \in 1..Len(StageNames)} : Register(k, n)
    \/ \E i \in Stages, v \in ReadyValues : StageSignal(i, v)
    \/ \E i \in Stages, r \in LaunchResults : LaunchReturn(i, r)
    \/ \E i \in Stages, p \in PanicPayloads : LaunchPanic(i, p)
    \/ \E i \in Stages, p \in PanicPayloads : LaunchPanicAbort(i, p)
    \/ \E i \in Stages : RunnerFinish(i)
    \/ BuildStart
    \/ BuildAwaitReady
    \/ BuildSleep
    \/ BuildSpawn
    \/ BuildReturn
    \/ SupPoll
    \/ SupWake
    \/ SupPublish

Spec == Init /\ [][Next]_vars

\* The specification with the scheduling build() and the supervisor rely on:
\* the caller keeps awaiting build(), whose readiness waits, sleep and spawn
\* each complete (the timeout and the sleep are timers of the runtime), and the
\* runtime keeps polling the spawned supervisor task, which a resolved
\* completion signal wakes. Nothing is assumed of the stage threads or of the
\* caller's registrations.
BuildStep == BuildAwaitReady \/ BuildSleep \/ BuildSpawn \/ BuildReturn

SupStep == SupPoll \/ SupWake \/ SupPublish

FairSpec == Spec /\ WF_vars(BuildStep) /\ WF_vars(SupStep)

\* The race of a longer pipeline, from the state in which build() has spawned
\* the supervisor: RaceStages stages registered with spawn_task, each of which
\* has signalled Ok and is still running, every readiness received, the
\* completion channel created and the supervisor about to make its first poll.
RaceStages == MaxStages + 2

\* The state in which build() has spawned the supervisor of n stages.
AtSupervisorSpawn(n) ==
    /\ pc = "return"
    /\ tasks = [i \in 1..n |-> [name |-> StageNames[i], listener |-> 0]]
    /\ listeners = <<>>
    /\ nextListener = 1
    /\ st = [i \in 1..n |-> "running"]
    /\ out = [i \in 1..n |-> NoOut]
    /\ signalled = [i \in 1..n |-> TRUE]
    /\ ready = [i \in 1..n |-> [buf |-> ReadyNone, tx |-> TRUE, rx |-> FALSE]]
    /\ done = [i \in 1..n |-> [val |-> None, tx |-> TRUE, rx |-> TRUE]]
    /\ firstEnded = 0
    /\ idx = n
    /\ got = [i \in 1..n |-> Recv(ReadyOk)]
    /\ buildResult = ReadyNone
    /\ supPc = "poll"
    /\ supIdx = 1
    /\ supIndex = 0
    /\ supRecv = Pending
    /\ completion = [created |-> TRUE, val |-> None]
    /\ published = [polled |-> FALSE, first |-> 0]

RaceInit == AtSupervisorSpawn(RaceStages)

\* From there: the stages return, build() returns and the supervisor runs.
RaceNext ==
    \/ \E i \in Stages, r \in LaunchResults : LaunchReturn(i, r)
    \/ \E i \in Stages : RunnerFinish(i)
    \/ BuildReturn
    \/ SupPoll
    \/ SupWake
    \/ SupPublish

RaceSpec == RaceInit /\ [][RaceNext]_vars

\* ================================================================== claims
\* build() failed and its error is a TaskLaunch whose text names stage k.
TaskLaunchNaming(k) ==
    /\ buildResult.tag = "Err"
    /\ buildResult.err.kind = "TaskLaunch"
    /\ Contains(buildResult.err.text, <<tasks[k].name>>)

\* Every readiness wait of build() received Ok.
AllReadyOk ==
    /\ Len(got) = Len(tasks)
    /\ \A i \in 1..Len(got) : got[i] = [tag |-> "Recv", val |-> ReadyOk]

\* The step on which build() returns Ok.
BuildReturns == pc = "return" /\ pc' = "done"

\* C1 (as stated): whenever N >= 1 stages all signalled Ok in time, build()
\* returns Ok with a completion future that is unresolved at the moment of
\* the return.
C1_PendingAtReturn ==
    [][BuildReturns =>
          /\ Len(tasks) >= 1
          /\ buildResult' = ReadyOk
          /\ completion.created
          /\ completion.val = None]_vars

\* C1 (amended): whenever N >= 1 stages all signalled Ok in time, build()
\* returns Ok with a completion future; at the moment of the return the future
\* is unresolved unless some stage thread has already ended.
C1_OkAndPendingUnlessStageEnded ==
    /\ [](pc = "done" /\ Len(tasks) >= 1 /\ AllReadyOk
            => buildResult = ReadyOk /\ completion.created)
    /\ [][BuildReturns =>
            /\ Len(tasks) >= 1
            /\ AllReadyOk
            /\ buildResult' = ReadyOk
            /\ completion.created
            /\ (completion.val # None => \E i \in Stages : st[i] = "ended")]_vars

\* Several stages signalled Ok, build() returned Ok, all stages still run and the
\* completion future is unresolved.
C1_Witness ==
    /\ pc = "done"
    /\ Len(tasks) >= 2
    /\ AllReadyOk
    /\ buildResult = ReadyOk
    /\ \A i \in Stages : st[i] = "running"
    /\ completion.created
    /\ completion.val = None

\* C2: with no stage registered build() returns EmptyPipeline, having waited on
\* no readiness signal, spawned no supervisor and created no completion future.
C2_EmptyPipeline ==
    Len(tasks) = 0 =>
        /\ pc \in {"registering", "done"}
        /\ pc = "done" => buildResult = ReadyErr(EmptyPipeline)
        /\ got = <<>>
        /\ supPc = "none"
        /\ ~completion.created

\* build() has returned EmptyPipeline for a builder without stages.
C2_Witness ==
    /\ Len(tasks) = 0
    /\ pc = "done"
    /\ buildResult = ReadyErr(EmptyPipeline)

\* C3 (as stated): a stage k that never signals readiness makes build() fail
\* with a TaskLaunch error naming k, whatever the stages before and after k do.
C3_SilentStageNamed ==
    pc = "done" /\ Len(tasks) >= 1 =>
        \A k \in Stages :
            ~signalled[k] /\ st[k] # "running" => TaskLaunchNaming(k)

\* C3 (amended): if every stage before k signalled Ok and the wait on stage k
\* ends without a value (timeout, or the channel closed), build() fails with a
\* TaskLaunch error naming k, whatever the stages after k do.
C3_FirstSilentStageNamed ==
    \A k \in 1..Len(got) :
        got[k].tag \in {"Elapsed", "Closed"} =>
            /\ \A j \in 1..(k - 1) : got[j] = [tag |-> "Recv", val |-> ReadyOk]
            /\ ~signalled[k] \/ ~ready[k].rx
            /\ pc = "done"
            /\ TaskLaunchNaming(k)

\* The wait on stage 2 timed out after stage 1 was received as ready.
C3_Witness ==
    /\ Len(tasks) >= 2
    /\ Len(got) = 2
    /\ got[1] = [tag |-> "Recv", val |-> ReadyOk]
    /\ got[2].tag = "Elapsed"
    /\ st[2] = "running"
    /\ TaskLaunchNaming(2)

\* C4: a timeout, a failure payload and a closed readiness signal each make
\* build() return a TaskLaunch error naming the offending stage, so that every
\* error of build() is EmptyPipeline (no stage) or such a TaskLaunch.
C4_OnlyTaskLaunchNamingStage ==
    pc = "done" /\ buildResult.tag = "Err" =>
        \/ Len(tasks) = 0 /\ buildResult.err = EmptyPipeline
        \/ Len(got) >= 1 /\ TaskLaunchNaming(Len(got))

\* The completion future holds a failure whose text names stage k.
FailureNaming(k) ==
    /\ completion.val.tag = "Err"
    /\ Contains(completion.val.err, <<tasks[k].name>>)

\* The reason of a "Task '<name>' failed: <reason>" text.
ReasonOf(text) == SubSeq(text, 4, Len(text))

\* C5 (as stated): when the run logic of a stage k panics after a successful
\* build(), the completion future resolves to a failure that names k with a
\* non-empty reason: at the panic the single-shot future has not resolved to
\* anything else.
C5_PanicAlwaysReported ==
    [][\A k \in Stages :
        /\ pc = "done"
        /\ buildResult = ReadyOk
        /\ st[k] = "running"
        /\ out'[k].tag = "Panic"
        => (supPc = "done" =>
              FailureNaming(k) /\ Len(ReasonOf(completion.val.err)) > 0)]_vars

\* C5 (amended): if the completion signal the supervisor's race selects is
\* that of a stage k whose run logic panicked, the completion future holds a
\* failure that names k, with the reason "Panicked: ..." (or "unknown reason"
\* when the runner could not report); and the step on which a stage panics
\* changes nothing of the builder, the supervisor or the other stage threads.
C5_SelectedPanicReported ==
    /\ [](supPc = "done" =>
            \A k \in Stages :
                /\ (supIndex = k /\ out[k].tag = "Panic" =>
                        /\ FailureNaming(k)
                        /\ Len(ReasonOf(completion.val.err)) > 0
                        /\ Head(ReasonOf(completion.val.err)) \in
                               {"Panicked: ", "Panicked: Unknown error"})
                /\ (supIndex = k /\ out[k].tag = "Abort" =>
                        /\ FailureNaming(k)
                        /\ Contains(completion.val.err, <<"' failed for unknown reason">>)))
    /\ [][\A k \in Stages :
            st[k] = "running" /\ out'[k].tag \in {"Panic", "Abort"} =>
                /\ UNCHANGED <<builderVars, supervisorVars>>
                /\ \A j \in Stages \ {k} :
                      st'[j] = st[j] /\ ready'[j] = ready[j] /\ done'[j] = done[j]]_vars

\* Stage 2 panicked after a successful build() while stage 1 kept running, and
\* the completion future holds the failure naming stage 2.
C5_Witness ==
    /\ supPc = "done"
    /\ buildResult = ReadyOk
    /\ Len(tasks) >= 2
    /\ supIndex = 2
    /\ out[2].tag = "Panic"
    /\ st[1] = "running"
    /\ FailureNaming(2)

\* The completion future holds the outcome of stage k: success if its launch
\* returned Ok, a failure naming k otherwise.
OutcomeIsOf(k) ==
    IF out[k].tag = "Ok" THEN completion.val = Ok ELSE FailureNaming(k)

\* C6 (as stated): the completion future resolves with the outcome of the
\* stage that terminated first in time, also when several stages had terminated
\* before the supervisor polled.
C6_FirstInTimeWins ==
    supPc = "done" => OutcomeIsOf(firstEnded)

\* C6 (amended): the completion future resolves with the outcome of the stage
\* whose completion signal the race selects, independent of the other stages;
\* the selected stage has terminated, and it is the one that terminated first
\* in time whenever no other stage had terminated when the race selected it.
C6_SelectedStageWins ==
    /\ [](supPc = "done" => OutcomeIsOf(supIndex))
    /\ [][supPc = "poll" /\ supPc' = "selected" =>
            /\ st[supIndex'] = "ended"
            /\ ((\A j \in Stages \ {supIndex'} : st[j] = "running")
                    => supIndex' = firstEnded)]_vars

\* Stage 2 terminated first but the race selected stage 1, whose outcome differs.
C6_Witness ==
    /\ supPc = "done"
    /\ Len(tasks) >= 2
    /\ firstEnded = 2
    /\ supIndex = 1
    /\ out[2].tag = "Ok"
    /\ out[1].tag = "Err"
    /\ FailureNaming(1)

\* C7: a registration under a name already present panics in the call itself:
\* it spawns no thread, creates no channel and replaces no registration (the
\* stages and what they sent stay as they were), every accepted registration
\* has a new name, and no two registrations share a name.
C7_DuplicateRejectedAtRegistration ==
    /\ [](\A i, j \in Stages : i # j => tasks[i].name # tasks[j].name)
    /\ [][pc = "registering" /\ pc' = "panicked" =>
            /\ UNCHANGED <<tasks, st, out, signalled>>
            /\ Len(ready') = Len(ready) /\ Len(done') = Len(done)
            /\ \A i \in Stages :
                  /\ ready'[i].buf = ready[i].buf /\ ready'[i].tx = ready[i].tx
                  /\ done'[i].val = done[i].val /\ done'[i].tx = done[i].tx]_vars
    /\ [][tasks' # tasks =>
            /\ pc = "registering" /\ pc' \in {"registering", "chained"}
            /\ SubSeq(tasks', 1, Len(tasks)) = tasks
            /\ Len(tasks') = Len(tasks) + 1
            /\ tasks'[Len(tasks')].name \notin TaskNames]_vars

\* A second registration under the name of a registered stage has panicked.
C7_Witness ==
    /\ pc = "panicked"
    /\ Len(tasks) >= 1
    /\ Len(st) = Len(tasks)

\* C8: every registered stage has exactly one control listener, created in the
\* registration step of the stage; the listener names are the stage names.
C8_OneListenerPerStage ==
    /\ Len(listeners) = Len(tasks)
    /\ {listeners[k].name : k \in 1..Len(listeners)} = TaskNames
    /\ \A i \in Stages :
          /\ tasks[i].listener # 0
          /\ \E k \in 1..Len(listeners) :
                listeners[k] = [name |-> tasks[i].name, id |-> tasks[i].listener]

\* C9: the supervisor maps the selected completion signal of stage n to the
\* outcome: Err(r) to a failure naming n and containing r, a closed channel to
\* a failure naming n with the unknown-reason text, Ok to success.
C9_SupervisorMapping ==
    supPc = "done" =>
        /\ supIndex \in Stages
        /\ supRecv.tag \in {"Recv", "Closed"}
        /\ (supRecv.tag = "Recv" /\ supRecv.val.tag = "Err" =>
                /\ FailureNaming(supIndex)
                /\ Contains(completion.val.err, supRecv.val.err)
                /\ Len(supRecv.val.err) > 0)
        /\ (supRecv.tag = "Closed" =>
                /\ FailureNaming(supIndex)
                /\ Contains(completion.val.err, <<"' failed for unknown reason">>))
        /\ (supRecv.tag = "Recv" /\ supRecv.val.tag = "Ok" => completion.val = Ok)

\* The selected stage reported success, another stage failed, and the
\* completion future holds success.
C9_Witness ==
    /\ supPc = "done"
    /\ supRecv = Recv(Ok)
    /\ completion.val = Ok
    /\ \E j \in Stages \ {supIndex} : out[j].tag = "Err"

\* C10: the completion future is written once, by the supervisor's send, and
\* its value never changes afterwards, whatever stages terminate later.
C10_PublishedOnce ==
    /\ [][completion.val # None => completion' = completion]_vars
    /\ [][completion'.val # completion.val =>
            supPc = "selected" /\ supPc' = "done"]_vars
    /\ [](supPc = "done" => completion.val # None)

\* The outcome is published and another stage terminated after the selected one.
C10_Witness ==
    /\ supPc = "done"
    /\ completion.val # None
    /\ firstEnded = supIndex
    /\ \E j \in Stages \ {supIndex} : st[j] = "ended"

\* The text is one the runner makes of a caught panic.
IsPanicText(t) ==
    Len(t) >= 1 /\ t[1] \in {"Panicked: ", "Panicked: Unknown error"}

\* C11 (as stated): whichever way the launch closure of a stage ended, the
\* runner has sent one value on the stage's completion signal, Ok for a normal
\* return, Err(msg) for an explicit failure and Err("Panicked: ...") for a
\* panic (the value stays in the signal until a receiver takes it), and an
\* ended stage is never run again.
C11_OneValuePerEnding ==
    /\ [](\A i \in Stages :
            st[i] = "ended" /\ done[i].rx =>
                /\ ~done[i].tx
                /\ (out[i].tag = "Ok" => done[i].val = Ok)
                /\ (out[i].tag = "Err" => done[i].val = Err(out[i].msg))
                /\ (out[i].tag \in {"Panic", "Abort"} =>
                        done[i].val.tag = "Err" /\ IsPanicText(done[i].val.err)))
    /\ [][\A i \in Stages :
            st[i] = "ended" => st'[i] = "ended" /\ out'[i] = out[i]]_vars

\* The step on which build() returns the error of a failed readiness.
BuildFails == pc = "wait" /\ pc' = "done"

\* C12: the turn of the readiness loop that fails at stage k is the step on
\* which build() returns: it has waited on stages 1..k only, it takes no value
\* out of the readiness signal of a stage after k, and it leaves every stage
\* thread as it was (running stages keep running, nothing is sent to a stage
\* or to its control listener).
C12_FailureLeavesStagesAlone ==
    [][BuildFails =>
          /\ buildResult'.tag = "Err"
          /\ Len(got') = idx
          /\ \A j \in 1..(idx - 1) : got'[j] = Recv(ReadyOk)
          /\ \A j \in Stages : j > idx =>
                /\ ready'[j].buf = ready[j].buf
                /\ ready'[j].tx = ready[j].tx
          /\ \A j \in Stages :
                /\ st'[j] = st[j]
                /\ out'[j] = out[j]
                /\ signalled'[j] = signalled[j]
                /\ done'[j].val = done[j].val
                /\ done'[j].tx = done[j].tx
          /\ listeners' = listeners]_vars

\* build() failed at stage 1 of 2 while stage 2, still running, had its Ok
\* buffered and unread.
C12_Witness ==
    /\ pc = "done"
    /\ buildResult.tag = "Err"
    /\ Len(tasks) = 2
    /\ Len(got) = 1
    /\ st[1] = "running"
    /\ st[2] = "running"
    /\ ready[2].buf = ReadyOk

\* A turn of the readiness loop: build() finishes one wait.
BuildTurn == pc = "wait" /\ Len(got') = Len(got) + 1

\* C14: build() waits on the readiness signals one at a time in registration
\* order: while it waits on stage idx it has received Ok from every stage
\* before idx and nothing from a later one, and idx moves on by one only on
\* an Ok; stages signal in any order, and what a stage sent before its turn
\* stays buffered and is what build() receives on that turn.
C14_ReadinessInRegistrationOrder ==
    /\ [](pc = "wait" =>
            /\ idx \in Stages
            /\ Len(got) = idx - 1
            /\ \A j \in 1..(idx - 1) : got[j] = Recv(ReadyOk))
    /\ [][idx' # idx =>
            /\ idx' = idx + 1
            /\ (idx >= 1 => Len(got') = idx /\ got'[idx] = Recv(ReadyOk))]_vars
    /\ [](\A j \in Stages :
            pc \in {"registering", "wait"} /\ Len(got) < j /\ signalled[j] =>
                ready[j].rx /\ ready[j].buf # ReadyNone)
    /\ [][BuildTurn /\ ready[idx].buf # ReadyNone =>
            got'[idx] = Recv(ready[idx].buf)]_vars

\* build() waits on stage 1, which has not signalled, while stage 2 has
\* already sent Ok.
C14_Witness ==
    /\ pc = "wait"
    /\ idx = 1
    /\ ~signalled[1]
    /\ Len(tasks) = 2
    /\ signalled[2]
    /\ ready[2].buf = ReadyOk

\* C15: a successful build() spawns exactly one supervisor, on the spawn step
\* that follows an Ok readiness from every stage: no supervisor and no
\* completion channel exists, and the completion future holds nothing, unless
\* every readiness wait received Ok, also when a stage has ended while
\* build() waits on a later one.
C15_OneSupervisorAfterAllReady ==
    /\ [](supPc # "none" \/ completion.created \/ completion.val # None =>
            Len(tasks) >= 1 /\ AllReadyOk)
    /\ [][supPc' # "none" /\ supPc = "none" =>
            pc = "spawn" /\ pc' = "return" /\ supPc' = "poll"]_vars
    /\ [][pc = "spawn" /\ pc' # pc => supPc = "none" /\ supPc' = "poll"]_vars
    /\ [][supPc # "none" => supPc' # "none"]_vars
    /\ [](pc = "done" /\ buildResult = ReadyOk => supPc # "none")

\* Stage 1 has ended while build() waits on stage 2: no supervisor yet, and
\* the completion future holds nothing.
C15_Witness ==
    /\ pc = "wait"
    /\ idx = 2
    /\ st[1] = "ended"
    /\ done[1].val # None
    /\ supPc = "none"
    /\ completion.val = None

\* C18: a stage that sent Ok and ended before its turn is received as ready:
\* the buffered Ok outlives the dropped sender, the turn on it yields Ok and
\* build() goes on without an error, and what the stage's thread left on the
\* completion signal is there for the supervisor to poll.
C18_EndedStageStillReady ==
    /\ [](\A i \in Stages :
            st[i] # "running" /\ signalled[i] /\ ready[i].rx =>
                ~ready[i].tx /\ ready[i].buf # ReadyNone)
    /\ [][BuildTurn /\ st[idx] # "running" /\ ready[idx].buf = ReadyOk =>
            /\ got'[idx] = Recv(ReadyOk)
            /\ pc' \in {"wait", "sleep"}
            /\ buildResult' = buildResult
            /\ buildResult'.tag # "Err"
            /\ done'[idx] = done[idx]]_vars
    /\ [](\A i \in Stages :
            st[i] = "ended" /\ supPc \in {"poll", "parked"} =>
                done[i].rx /\ OneshotPoll(done[i]) # Pending)

\* build() reaches stage 2, which sent Ok and then panicked before its turn.
C18_Witness ==
    /\ pc = "wait"
    /\ idx = 2
    /\ st[2] = "ended"
    /\ out[2].tag = "Panic"
    /\ ready[2].buf = ReadyOk
    /\ ~ready[2].tx

\* C20: once build() has returned an error there is no supervisor and no
\* completion channel, and nothing is ever published; every completion
\* receiver is gone, so what the stages reported or report later is dropped,
\* and a runner that reports after the failure ends its thread as usual, its
\* sender used up and the signal left as it was.
C20_FailedBuildPublishesNothing ==
    /\ [](buildResult.tag = "Err" =>
            /\ pc = "done"
            /\ supPc = "none"
            /\ ~completion.created
            /\ completion.val = None
            /\ \A i \in Stages : ~done[i].rx)
    /\ [][buildResult.tag = "Err" =>
            /\ buildResult' = buildResult
            /\ \A i \in Stages :
                /\ done'[i].val = done[i].val
                /\ (st[i] = "reporting" /\ st'[i] = "ended" => ~done'[i].tx)]_vars

\* build() failed on stage 2 after stage 1 had signalled Ok; stage 1 then
\* returned an error, which reached nobody.
C20_Witness ==
    /\ buildResult.tag = "Err"
    /\ Len(got) = 2
    /\ got[1] = Recv(ReadyOk)
    /\ st[1] = "ended"
    /\ out[1].tag = "Err"
    /\ done[1].val = None
    /\ ~done[1].tx

\* C16: build() always terminates: once it has entered the readiness loop
\* it eventually returns Ok or an error, whatever the stages do (signal Ok,
\* signal a failure, never signal, end or panic before signalling), and its
\* return never requires a stage thread to have ended.
C16_BuildTerminates ==
    /\ (pc \in {"wait", "sleep", "spawn", "return"})
            ~> (pc = "done" /\ buildResult.tag \in {"Ok", "Err"})
    /\ [][pc' # pc /\ pc \in {"wait", "sleep", "spawn", "return"} =>
            (st' = st /\ out' = out /\ signalled' = signalled)]_vars

\* build() has returned the timeout error of stage 2 of 2, which never
\* signalled, and both stage threads are still running.
C16_Witness ==
    /\ pc = "done"
    /\ Len(tasks) = 2
    /\ Len(got) = 2
    /\ got[2].tag = "Elapsed"
    /\ buildResult.tag = "Err"
    /\ ~signalled[2]
    /\ \A i \in Stages : st[i] = "running"

\* build() returned Ok.
BuildSucceeded == pc = "done" /\ buildResult = ReadyOk

\* C17: after a successful build() the completion future eventually resolves
\* once some stage thread has ended, and it holds nothing as long as every
\* stage thread is running: the only step that resolves it is the supervisor
\* publishing the signal of a stage that has ended.
C17_ResolvesIffSomeStageEnds ==
    /\ (BuildSucceeded /\ \E i \in Stages : st[i] = "ended")
            ~> (completion.val # None)
    /\ []((\A i \in Stages : st[i] = "running") => completion.val = None)
    /\ [][completion'.val # completion.val =>
            supPc = "selected" /\ st[supIndex] = "ended"]_vars

\* The completion future resolved with the failure of stage 2, which ended
\* while stage 1 keeps running.
C17_Witness ==
    /\ BuildSucceeded
    /\ Len(tasks) = 2
    /\ st[1] = "running"
    /\ st[2] = "ended"
    /\ supPc = "done"
    /\ supIndex = 2
    /\ completion.val.tag = "Err"

\* C19 (as stated): when two or more stages had published their completion
\* at the supervisor's first poll, the race selects the earliest-registered
\* of them, the outcome is that stage's, and a failure message names the
\* selected stage.
C19_EarliestPublishedWins ==
    supPc \in {"selected", "done"} /\ published.first # 0 =>
        /\ supIndex = published.first
        /\ (supPc = "done" =>
                OutcomeIsOf(published.first)
                /\ (completion.val.tag = "Err" => FailureNaming(supIndex)))

\* C19 (amended): when two or more stages had published their completion at
\* the supervisor's first poll, the race selects no stage registered after
\* the earliest of them: it selects that stage, or a stage registered before
\* it (and after the first) that published while the race was polling the
\* signals before its own; the outcome is the selected stage's and a failure
\* message names the selected stage.
C19_NoLaterThanEarliestPublished ==
    supPc \in {"selected", "done"} /\ published.first # 0 =>
        /\ supIndex \in Stages
        /\ supIndex <= published.first
        /\ (supIndex # published.first => supIndex > 1)
        /\ st[supIndex] = "ended"
        /\ (supPc = "done" =>
                OutcomeIsOf(supIndex)
                /\ (completion.val.tag = "Err" => FailureNaming(supIndex)))

\* Stages 2 and 3 had published at the first poll while stage 1 was running:
\* the race selected stage 2, whose failure the completion future holds.
C19_Witness ==
    /\ supPc = "done"
    /\ published.first = 2
    /\ supIndex = 2
    /\ st[1] = "running"
    /\ out[2].tag = "Err"
    /\ out[3].tag = "Ok"
    /\ FailureNaming(2)

====
